---- MODULE Spec2Model ----
(***************************************************************************)
(* xref.rs: a cross-reference checker for compiled BEAM modules grouped    *)
(* into applications.  The Loader walks library roots with a pool of       *)
(* parallel workers and fills three lock-protected tables (Interner,       *)
(* Modules, Apps); the Analyzer takes the finished tables and answers      *)
(* run(apps) with a list of diagnostics.                                   *)
(***************************************************************************)
EXTENDS Integers, Sequences, FiniteSets, Bags, TLC

VARIABLES
    fs,          \* the library roots, flattened: one entry per item of the entry stream
    task,        \* per entry: the position of the closure of try_for_each working on it
    interner,    \* Loader.interner: the strings interned so far, Atom = position
    modules,     \* Loader.modules / Analyzer.modules: Atom -> (Imports, Exports)
    apps,        \* Loader.apps: Atom -> App
    lock,        \* holder of each of the three mutexes (0 = free)
    poisoned,    \* mutexes whose holder panicked
    loadResult,  \* what read_libs returned
    analyzer,    \* Analyzer: modules_rev, app_modules, app_deps once built
    runApps,     \* argument of the last run
    runStatus,   \* "none" before any run, then "ok" or "panic"
    results      \* the bag of diagnostics returned by the last run

vars == <<fs, task, interner, modules, apps, lock, poisoned, loadResult,
          analyzer, runApps, runStatus, results>>

----------------------------------------------------------------------------
(* Bounds *)

\* threads of the worker pool
NumWorkers == 2
\* arities used by the module files of the input
MaxArity == 2

----------------------------------------------------------------------------
(* Generic helpers *)

Range(s) == {s[k] : k \in DOMAIN s}

RECURSIVE SetToSeq(_)
SetToSeq(S) ==
    IF S = {} THEN <<>>
    ELSE LET x == CHOOSE y \in S : \A z \in S : y <= z
         IN <<x>> \o SetToSeq(S \ {x})

RECURSIVE Flatten(_)
Flatten(ss) == IF ss = <<>> THEN <<>> ELSE Head(ss) \o Flatten(Tail(ss))

SeqToBag(s) == [d \in Range(s) |-> Cardinality({k \in DOMAIN s : s[k] = d})]

----------------------------------------------------------------------------
(* The input: files of an ebin directory and entries of a library root *)

BeamFile(stem, ok, hasAtom, atoms, hasImpT, imports, hasExpT, exports) ==
    [ext |-> "beam", stem |-> stem, ok |-> ok,
     hasAtom |-> hasAtom, atoms |-> atoms,
     hasImpT |-> hasImpT, imports |-> imports,
     hasExpT |-> hasExpT, exports |-> exports, deps |-> <<>>]

\* a well-formed module file
Beam(stem, atoms, imports, exports) ==
    BeamFile(stem, TRUE, TRUE, atoms, TRUE, imports, TRUE, exports)

\* a descriptor; deps is what the applications clauses list
AppFile(stem, ok, deps) ==
    [ext |-> "app", stem |-> stem, ok |-> ok,
     hasAtom |-> FALSE, atoms |-> <<>>, hasImpT |-> FALSE, imports |-> <<>>,
     hasExpT |-> FALSE, exports |-> <<>>, deps |-> deps]

\* any other file; ext = "" is a file name without extension
PlainFile(stem, ext) ==
    [ext |-> ext, stem |-> stem, ok |-> TRUE,
     hasAtom |-> FALSE, atoms |-> <<>>, hasImpT |-> FALSE, imports |-> <<>>,
     hasExpT |-> FALSE, exports |-> <<>>, deps |-> <<>>]

\* kind: "dir" an entry of a root, "rooterr" a root read_dir could not open,
\* "enterr" an entry read_dir failed on
Entry(kind, name, hasEbin, ebinOk, files) ==
    [kind |-> kind, name |-> name, hasEbin |-> hasEbin, ebinOk |-> ebinOk,
     files |-> files]

AppDir(name, files) == Entry("dir", name, TRUE, TRUE, files)

EbinPath(e) == <<e.name, "ebin">>
FilePath(e, f) == <<e.name, "ebin", f.stem, f.ext>>

----------------------------------------------------------------------------
(* The inputs the model is run on.  Module names A, B, C; functions f, g,  *)
(* h; applications X, Y, Z.  Local indices are 1-based positions in the    *)
(* file's own atom table.                                                  *)

Arities == 1..MaxArity

\* B imports A:f/a
BeamB1(a) == Beam("B", <<"B", "A", "f">>, <<<<2, 3, a>>>>, <<>>)
\* B imports A:f/1, A:g/MaxArity, A:f/1 again, C:h/1 and A:g/MaxArity again,
\* and exports g/1 twice
BeamB2 == Beam("B", <<"B", "A", "f", "g", "C", "h">>,
               <<<<2, 3, 1>>, <<2, 4, MaxArity>>, <<2, 3, 1>>, <<5, 6, 1>>, <<2, 4, MaxArity>>>>,
               <<<<4, 1>>, <<4, 1>>>>)
\* A exports f/a
BeamA(a) == Beam("A", <<"A", "f">>, <<>>, <<<<2, a>>>>)
\* A exports f/1 and imports B:g/1
BeamA2 == Beam("A", <<"A", "f", "B", "g">>, <<<<3, 4, 1>>>>, <<<<2, 1>>>>)
\* C imports B:g/1
BeamC == Beam("C", <<"C", "B", "g">>, <<<<2, 3, 1>>>>, <<>>)

\* module files that are not well formed
BeamUnreadable == BeamFile("B", FALSE, FALSE, <<>>, FALSE, <<>>, FALSE, <<>>)
BeamNoAtom == BeamFile("B", TRUE, FALSE, <<>>, TRUE, <<>>, TRUE, <<>>)
BeamNoImpT == BeamFile("B", TRUE, TRUE, <<"B", "f">>, FALSE, <<>>, TRUE, <<<<2, 1>>>>)
BeamNoExpT == BeamFile("B", TRUE, TRUE, <<"B", "A", "f">>, TRUE, <<<<2, 3, 1>>>>, FALSE, <<>>)
BeamBadIndex == Beam("B", <<"B", "A">>, <<<<2, 3, 1>>>>, <<>>)

GoodBeamsB == {BeamB1(a) : a \in Arities} \cup {BeamB2}
DepLists == {<<>>, <<"Y">>, <<"Z">>}

XDirs ==
    {AppDir("x", <<AppFile("X", TRUE, d), b>>) : d \in DepLists, b \in GoodBeamsB}
    \cup {AppDir("x", <<BeamA(1), AppFile("X", TRUE, d), BeamB1(a)>>) :
            d \in {<<>>, <<"Z">>}, a \in Arities}
    \cup {AppDir("x", <<AppFile("X", TRUE, <<>>), b>>) :
            b \in {BeamUnreadable, BeamNoAtom, BeamNoImpT, BeamNoExpT, BeamBadIndex}}
    \cup {AppDir("x", <<BeamB1(1), PlainFile("notes", "txt"), AppFile("X", TRUE, <<>>)>>),
          AppDir("x", <<BeamB1(1)>>),
          AppDir("x", <<PlainFile("x", "hrl")>>),
          AppDir("x", <<AppFile("X", FALSE, <<>>)>>),
          Entry("dir", "x", TRUE, FALSE, <<>>)}

YDirs ==
    {Entry("dir", ".git", TRUE, TRUE, <<>>),
     Entry("dir", "y", FALSE, FALSE, <<>>),
     AppDir("y", <<AppFile("Y", TRUE, <<>>), BeamA(1)>>),
     AppDir("y", <<BeamA2, AppFile("Y", TRUE, <<>>)>>),
     AppDir("x2", <<BeamC, AppFile("X", TRUE, <<"Y">>)>>),
     AppDir("y", <<AppFile("Y", TRUE, <<>>), PlainFile("Y", "erl")>>)}

ZDirs ==
    {Entry("rooterr", "lib2", FALSE, FALSE, <<>>),
     Entry("enterr", "lib2", FALSE, FALSE, <<>>),
     AppDir("z", <<PlainFile("Z", "appup"), AppFile("Z", TRUE, <<"Y">>)>>),
     AppDir("z", <<PlainFile("README", ""), AppFile("Z", TRUE, <<>>),
                   PlainFile("z", "hrl")>>)}

Inputs == {<<x, y, z>> : x \in XDirs, y \in YDirs, z \in ZDirs}

Tasks == 1..3
Locks == {"interner", "modules", "apps"}

----------------------------------------------------------------------------
(* Interner and maps *)

EmptyMap == << >>

\* mutant: a key already present keeps its value
MapPut_keep_existing(m, k, v) ==
    [x \in DOMAIN m \cup {k} |-> IF x \in DOMAIN m THEN m[x] ELSE v]

MapPut(m, k, v) == [x \in DOMAIN m \cup {k} |-> IF x = k THEN v ELSE m[x]]

\* StringInterner::get_or_intern: the symbol of an interned string is its
\* position in the table; a new string is appended
\* mutant: every call appends, interned before or not
get_or_intern_always_append(int, s) == Append(int, s)

get_or_intern(int, s) == IF s \in Range(int) THEN int ELSE Append(int, s)

AtomOf(int, s) == CHOOSE k \in DOMAIN int : int[k] = s

RECURSIVE InternAll(_, _)
InternAll(int, strs) ==
    IF strs = <<>> THEN int
    ELSE InternAll(get_or_intern(int, Head(strs)), Tail(strs))

\* the interner after load_atoms and the Atoms it returns, in table order
load_atoms_interner(int, atomChunk) == InternAll(int, atomChunk)
\* mutant: the Atoms are the positions in the file's own table
load_atoms_local_index(int, atomChunk) == [k \in DOMAIN atomChunk |-> k]

load_atoms(int, atomChunk) ==
    [k \in DOMAIN atomChunk |-> AtomOf(load_atoms_interner(int, atomChunk), atomChunk[k])]

\* atoms[idx as usize - 1] is in bounds
IndexOk(atoms, idx) == idx >= 1 /\ idx <= Len(atoms)

ImportsIndexOk(atoms, impT) ==
    \A k \in DOMAIN impT : IndexOk(atoms, impT[k][1]) /\ IndexOk(atoms, impT[k][2])

ExportsIndexOk(atoms, expT) ==
    \A k \in DOMAIN expT : IndexOk(atoms, expT[k][1])

RECURSIVE load_imports_loop(_, _, _)
load_imports_loop(atoms, impT, imports) ==
    IF impT = <<>> THEN imports
    ELSE LET import == Head(impT)
             m == atoms[import[1]]
             fa == <<atoms[import[2]], import[3]>>
             next == IF m \in DOMAIN imports
                     THEN [imports EXCEPT ![m] = Append(@, fa)]
                     ELSE MapPut(imports, m, <<fa>>)
         IN load_imports_loop(atoms, Tail(impT), next)

\* mutant: a reference is put in front of the earlier ones
load_imports_newest_first(atoms, impT) ==
    LET imports == load_imports_loop(atoms, impT, EmptyMap)
    IN [m \in DOMAIN imports |->
          [k \in DOMAIN imports[m] |-> imports[m][Len(imports[m]) + 1 - k]]]

load_imports(atoms, impT) == load_imports_loop(atoms, impT, EmptyMap)

load_exports(atoms, expT) ==
    [k \in DOMAIN expT |-> <<atoms[expT[k][1]], expT[k][2]>>]

----------------------------------------------------------------------------
(* Loader *)

NoErr == [kind |-> "", path |-> <<>>]
Err(kind, path) == [kind |-> kind, path |-> path]

NewTask ==
    [pc |-> "todo", i |-> 0, app_modules |-> <<>>, has_name |-> FALSE,
     app_name |-> 0, app_deps |-> <<>>, module |-> 0, imports |-> EmptyMap,
     exports |-> <<>>, err |-> NoErr]

DotNames == {".git"}
IgnoredExt == {"appup", "hrl", "am"}
KnownExt == {"beam", "app"} \cup IgnoredExt

Terminal == {"done", "failed", "panicked", "skipped"}
Active(t) == task[t].pc \notin Terminal \cup {"todo"}
\* an Err reached try_for_each: no further entry is started
Full == \E t \in Tasks : task[t].pc = "failed"
Panicked == \E t \in Tasks : task[t].pc = "panicked"

Init ==
    /\ fs \in Inputs
    /\ task = [t \in Tasks |-> NewTask]
    /\ interner = <<>>
    /\ modules = EmptyMap
    /\ apps = EmptyMap
    /\ lock = [l \in Locks |-> 0]
    /\ poisoned = {}
    /\ loadResult = [status |-> "running", err |-> NoErr]
    /\ analyzer = [built |-> FALSE, modules_rev |-> EmptyMap,
                   app_modules |-> EmptyMap, nodes |-> {}, edges |-> {}]
    /\ runApps = {}
    /\ runStatus = "none"
    /\ results = EmptyBag

CurFile(t) == fs[t].files[task[t].i]

LoaderOnly == UNCHANGED <<fs, loadResult, analyzer, runApps, runStatus, results>>

\* mutant: the failing worker also forgets what it had read
Fail_forgetting(t, kind, path) ==
    [task EXCEPT ![t] = [NewTask EXCEPT !.pc = "failed", !.err = Err(kind, path)]]

Fail(t, kind, path) == [task EXCEPT ![t].pc = "failed", ![t].err = Err(kind, path)]

\* read_libs, the closure of try_for_each up to the call of read_app, and the
\* read_dir that opens read_app
StartEntry(t) ==
    /\ task[t].pc = "todo"
    /\ ~Full
    /\ Cardinality({u \in Tasks : Active(u)}) < NumWorkers
    /\ LET e == fs[t] IN
       task' = IF e.kind \in {"rooterr", "enterr"}
                 THEN Fail(t, "reading lib path", <<e.name>>)
               ELSE IF e.name \in DotNames \/ ~e.hasEbin
                 THEN [task EXCEPT ![t].pc = "done"]
               ELSE IF ~e.ebinOk
                 THEN Fail(t, "io", <<>>)
               ELSE [task EXCEPT ![t].pc = "file", ![t].i = 1]
    /\ UNCHANGED <<interner, modules, apps, lock, poisoned>>
    /\ LoaderOnly

\* an entry the pool drops after an error or a panic
SkipEntry(t) ==
    /\ task[t].pc = "todo"
    /\ Full \/ Panicked
    /\ task' = [task EXCEPT ![t].pc = "skipped"]
    /\ UNCHANGED <<interner, modules, apps, lock, poisoned>>
    /\ LoaderOnly

AtFile(t) == task[t].pc = "file" /\ task[t].i <= Len(fs[t].files)

\* no extension, or "appup" | "hrl" | "am" => continue
IgnoreFile(t) ==
    /\ AtFile(t)
    /\ CurFile(t).ext \in IgnoredExt \cup {""}
    /\ task' = [task EXCEPT ![t].i = @ + 1]
    /\ UNCHANGED <<interner, modules, apps, lock, poisoned>>
    /\ LoaderOnly

\* mutant: the error names the directory, not the file
UnexpectedFileError_dir(e, f) == Err("unexpected file", EbinPath(e))

UnexpectedFileError(e, f) == Err("unexpected file", FilePath(e, f))

\* _ => bail!("unexpected file: {:?}", path)
UnexpectedFile(t) ==
    /\ AtFile(t)
    /\ CurFile(t).ext \notin KnownExt \cup {""}
    /\ task' = [task EXCEPT ![t].pc = "failed",
                            ![t].err = UnexpectedFileError(fs[t], CurFile(t))]
    /\ UNCHANGED <<interner, modules, apps, lock, poisoned>>
    /\ LoaderOnly

\* lock().unwrap() on mutex l by task t, going to pc on success
Acquire(t, l, pc) ==
    /\ lock[l] = 0
    /\ IF l \in poisoned
       THEN /\ task' = [task EXCEPT ![t].pc = "panicked"]
            /\ UNCHANGED lock
       ELSE /\ task' = [task EXCEPT ![t].pc = pc]
            /\ lock' = [lock EXCEPT ![l] = t]

\* "beam": StandardBeamFile::from_file fails
ModuleUnreadable(t) ==
    /\ AtFile(t)
    /\ CurFile(t).ext = "beam"
    /\ ~CurFile(t).ok
    /\ task' = Fail(t, "failed to read BEAM file", FilePath(fs[t], CurFile(t)))
    /\ UNCHANGED <<interner, modules, apps, lock, poisoned>>
    /\ LoaderOnly

\* "beam": from_file succeeds, read_module takes the interner lock
BeginModule(t) ==
    /\ AtFile(t)
    /\ CurFile(t).ext = "beam"
    /\ CurFile(t).ok
    /\ Acquire(t, "interner", "atoms")
    /\ UNCHANGED <<interner, modules, apps, poisoned>>
    /\ LoaderOnly

\* every unwrap and index of read_module succeeds on file f
ModuleDecodes(f) ==
    /\ f.hasAtom /\ f.hasImpT /\ f.hasExpT
    /\ Len(f.atoms) >= 1
    /\ ImportsIndexOk(f.atoms, f.imports)
    /\ ExportsIndexOk(f.atoms, f.exports)

\* read_module from the interner block to its return
LoadModule(t) ==
    /\ task[t].pc = "atoms"
    /\ LET f == CurFile(t) IN
       IF ~f.hasAtom
       THEN \* atom_chunk.unwrap() panics inside the block, the guard is dropped
            \* while unwinding
            /\ task' = [task EXCEPT ![t].pc = "panicked"]
            /\ poisoned' = poisoned \cup {"interner"}
            /\ UNCHANGED interner
       ELSE LET atoms == load_atoms(interner, f.atoms) IN
            /\ interner' = load_atoms_interner(interner, f.atoms)
            /\ UNCHANGED poisoned
            /\ task' = IF ModuleDecodes(f)
                       THEN [task EXCEPT ![t].pc = "module",
                                         ![t].module = atoms[1],
                                         ![t].imports = load_imports(atoms, f.imports),
                                         ![t].exports = load_exports(atoms, f.exports)]
                       ELSE [task EXCEPT ![t].pc = "panicked"]
    /\ lock' = [lock EXCEPT !["interner"] = 0]
    /\ UNCHANGED <<modules, apps>>
    /\ LoaderOnly

\* let mut modules = self.modules.lock().unwrap()
LockModules(t) ==
    /\ task[t].pc = "module"
    /\ Acquire(t, "modules", "insert_module")
    /\ UNCHANGED <<interner, modules, apps, poisoned>>
    /\ LoaderOnly

\* app_modules.push(module); modules.insert(module, (imports, exports))
InsertModule(t) ==
    /\ task[t].pc = "insert_module"
    /\ modules' = MapPut(modules, task[t].module,
                         [imports |-> task[t].imports, exports |-> task[t].exports])
    /\ task' = [task EXCEPT ![t].pc = "file", ![t].i = @ + 1,
                            ![t].app_modules = Append(@, task[t].module)]
    /\ lock' = [lock EXCEPT !["modules"] = 0]
    /\ UNCHANGED <<interner, apps, poisoned>>
    /\ LoaderOnly

\* "app": the interner lock for the file stem
BeginApp(t) ==
    /\ AtFile(t)
    /\ CurFile(t).ext = "app"
    /\ Acquire(t, "interner", "stem")
    /\ UNCHANGED <<interner, modules, apps, poisoned>>
    /\ LoaderOnly

\* app_name = file stem interned; then read_to_string of read_app_deps
InternStem(t) ==
    /\ task[t].pc = "stem"
    /\ LET f == CurFile(t)
           int == get_or_intern(interner, f.stem)
           named == [task EXCEPT ![t].has_name = TRUE, ![t].app_name = AtomOf(int, f.stem)]
       IN /\ interner' = int
          /\ task' = IF f.ok
                     THEN [named EXCEPT ![t].pc = "deps_lock"]
                     ELSE [named EXCEPT ![t].pc = "failed",
                              ![t].err = Err("failed to parse .app file", FilePath(fs[t], f))]
    /\ lock' = [lock EXCEPT !["interner"] = 0]
    /\ UNCHANGED <<modules, apps, poisoned>>
    /\ LoaderOnly

\* read_app_deps: let mut interner = self.interner.lock().unwrap()
LockDeps(t) ==
    /\ task[t].pc = "deps_lock"
    /\ Acquire(t, "interner", "deps")
    /\ UNCHANGED <<interner, modules, apps, poisoned>>
    /\ LoaderOnly

\* read_app_deps: every listed name interned; app_deps = Some(deps)
InternDeps(t) ==
    /\ task[t].pc = "deps"
    /\ LET f == CurFile(t)
           int == InternAll(interner, f.deps)
       IN /\ interner' = int
          /\ task' = [task EXCEPT ![t].pc = "file", ![t].i = @ + 1,
                         ![t].app_deps = [k \in DOMAIN f.deps |-> AtomOf(int, f.deps[k])]]
    /\ lock' = [lock EXCEPT !["interner"] = 0]
    /\ UNCHANGED <<modules, apps, poisoned>>
    /\ LoaderOnly

\* the App read_app returns
NewApp(tk) == [name |-> tk.app_name, deps |-> tk.app_deps, modules |-> tk.app_modules]

\* mutant: the absent name is unwrapped
MissingDescriptor_unwrap(t) ==
    /\ task[t].pc = "file"
    /\ task[t].i > Len(fs[t].files)
    /\ ~task[t].has_name
    /\ task' = [task EXCEPT ![t].pc = "panicked"]
    /\ UNCHANGED <<interner, modules, apps, lock, poisoned>>
    /\ LoaderOnly

\* the end of read_app without a descriptor
MissingDescriptor(t) ==
    /\ task[t].pc = "file"
    /\ task[t].i > Len(fs[t].files)
    /\ ~task[t].has_name
    /\ task' = Fail(t, "missing .app file", EbinPath(fs[t]))
    /\ UNCHANGED <<interner, modules, apps, lock, poisoned>>
    /\ LoaderOnly

\* read_app returns Ok(App); read_libs takes the apps lock
LockApps(t) ==
    /\ task[t].pc = "file"
    /\ task[t].i > Len(fs[t].files)
    /\ task[t].has_name
    /\ Acquire(t, "apps", "insert_app")
    /\ UNCHANGED <<interner, modules, apps, poisoned>>
    /\ LoaderOnly

\* apps.insert(app.name, app)
InsertApp(t) ==
    /\ task[t].pc = "insert_app"
    /\ apps' = MapPut(apps, task[t].app_name, NewApp(task[t]))
    /\ task' = [task EXCEPT ![t].pc = "done"]
    /\ lock' = [lock EXCEPT !["apps"] = 0]
    /\ UNCHANGED <<interner, modules, poisoned>>
    /\ LoaderOnly

\* what read_libs hands back once every entry is finished or dropped
ReadLibsOutcome(tk) ==
    IF \E t \in Tasks : tk[t].pc = "panicked"
      THEN {[status |-> "panic", err |-> NoErr]}
    ELSE IF \E t \in Tasks : tk[t].pc = "failed"
      THEN {[status |-> "err", err |-> tk[t].err] : t \in {u \in Tasks : tk[u].pc = "failed"}}
    ELSE {[status |-> "ok", err |-> NoErr]}

ReadLibsReturn ==
    /\ loadResult.status = "running"
    /\ \A t \in Tasks : task[t].pc \in Terminal
    /\ loadResult' \in ReadLibsOutcome(task)
    /\ UNCHANGED <<fs, task, interner, modules, apps, lock, poisoned,
                   analyzer, runApps, runStatus, results>>

----------------------------------------------------------------------------
(* Analyzer *)

\* the application -> modules mapping handed to Analyzer::new
AppModulesOf(as) == [a \in DOMAIN as |-> as[a].modules]

\* the dependency graph handed to Analyzer::new: one edge per declared
\* dependency; the nodes are the endpoints of the edges
AppDepsEdges(as) == UNION {{<<a, d>> : d \in Range(as[a].deps)} : a \in DOMAIN as}
AppDepsNodes(as) == {e[1] : e \in AppDepsEdges(as)} \cup {e[2] : e \in AppDepsEdges(as)}

\* the applications whose module list holds module m
Owners(am, m) == {a \in DOMAIN am : m \in Range(am[a])}
Listed(am) == UNION {Range(am[a]) : a \in DOMAIN am}

\* Analyzer::new: modules_rev collects (module, app) pairs in the iteration
\* order of app_modules; of two pairs with the same module the later one stays
ModulesRevChoices(am) ==
    {rev \in [Listed(am) -> DOMAIN am] : \A m \in Listed(am) : rev[m] \in Owners(am, m)}

AnalyzerNew ==
    /\ loadResult.status = "ok"
    /\ ~analyzer.built
    /\ \E rev \in ModulesRevChoices(AppModulesOf(apps)) :
          analyzer' = [built |-> TRUE, modules_rev |-> rev,
                       app_modules |-> AppModulesOf(apps),
                       nodes |-> AppDepsNodes(apps), edges |-> AppDepsEdges(apps)]
    /\ UNCHANGED <<fs, task, interner, modules, apps, lock, poisoned, loadResult,
                   runApps, runStatus, results>>

MissingModule(module, imported) ==
    [module |-> module, kind |-> "MissingModule", imported |-> imported,
     function |-> 0, arity |-> 0, app_from |-> 0, app_to |-> 0]
MissingFunction(module, imported, f, a) ==
    [module |-> module, kind |-> "MissingFunction", imported |-> imported,
     function |-> f, arity |-> a, app_from |-> 0, app_to |-> 0]
MissingDependency(module, imported, app_from, app_to) ==
    [module |-> module, kind |-> "MissingDependency", imported |-> imported,
     function |-> 0, arity |-> 0, app_from |-> app_from, app_to |-> app_to]

\* petgraph Dfs: pop a node; a node not yet discovered is visited and its
\* undiscovered successors are pushed.  A node that is not in the graph has no
\* successors.
RECURSIVE DfsAny(_, _, _, _)
DfsAny(edges, stack, discovered, to) ==
    IF stack = <<>> THEN FALSE
    ELSE LET node == stack[Len(stack)]
             rest == SubSeq(stack, 1, Len(stack) - 1)
         IN IF node \in discovered THEN DfsAny(edges, rest, discovered, to)
            ELSE IF node = to THEN TRUE
            ELSE LET seen == discovered \cup {node}
                     succ == {e[2] : e \in {d \in edges : d[1] = node}} \ seen
                 IN DfsAny(edges, rest \o SetToSeq(succ), seen, to)

\* mutant: the search is refused for a start that is no node of the graph
has_path_connecting_from_node(edges, from, to) ==
    /\ \E e \in edges : from \in {e[1], e[2]}
    /\ DfsAny(edges, <<from>>, {}, to)

has_path_connecting(edges, from, to) == DfsAny(edges, <<from>>, {}, to)

\* mutant: the references to an unresolved module are reported as functions too
check_missing_module_unskipped(mods, module, imported, functions) ==
    IF imported \in DOMAIN mods
    THEN LET exports == mods[imported].exports
             missing == SelectSeq(functions, LAMBDA fa : fa \notin Range(exports))
         IN [k \in DOMAIN missing |->
                MissingFunction(module, imported, missing[k][1], missing[k][2])]
    ELSE <<MissingModule(module, imported)>> \o
         [k \in DOMAIN functions |->
            MissingFunction(module, imported, functions[k][1], functions[k][2])]

\* mutant: an export of the same name with another arity satisfies a reference
check_missing_module_any_arity(mods, module, imported, functions) ==
    IF imported \in DOMAIN mods
    THEN LET exports == mods[imported].exports
             names == {exports[k][1] : k \in DOMAIN exports}
             missing == SelectSeq(functions, LAMBDA fa : fa[1] \notin names)
         IN [k \in DOMAIN missing |->
                MissingFunction(module, imported, missing[k][1], missing[k][2])]
    ELSE <<MissingModule(module, imported)>>

check_missing_module(mods, module, imported, functions) ==
    IF imported \in DOMAIN mods
    THEN LET exports == mods[imported].exports
             missing == SelectSeq(functions, LAMBDA fa : fa \notin Range(exports))
         IN [k \in DOMAIN missing |->
                MissingFunction(module, imported, missing[k][1], missing[k][2])]
    ELSE <<MissingModule(module, imported)>>

\* mutant: only a direct edge counts as a dependency
check_missing_dep_direct(an, module, imported) ==
    LET app_from == an.modules_rev[module] IN
    IF imported \in DOMAIN an.modules_rev
    THEN LET app_to == an.modules_rev[imported] IN
         IF app_from = app_to \/ <<app_from, app_to>> \in an.edges
         THEN <<>>
         ELSE <<MissingDependency(module, imported, app_from, app_to)>>
    ELSE <<>>

check_missing_dep(an, module, imported) ==
    LET app_from == an.modules_rev[module] IN
    IF imported \in DOMAIN an.modules_rev
    THEN LET app_to == an.modules_rev[imported] IN
         IF has_path_connecting(an.edges, app_from, app_to)
         THEN <<>>
         ELSE <<MissingDependency(module, imported, app_from, app_to)>>
    ELSE <<>>

\* mutant: the dependency is looked at only when the first check found nothing
ImportResults_exclusive(an, mods, module, imported) ==
    LET first == check_missing_module(mods, module, imported, mods[module].imports[imported])
    IN IF first = <<>> THEN check_missing_dep(an, module, imported) ELSE first

\* the closure run applies to one (imported, functions) entry of a module
ImportResults(an, mods, module, imported) ==
    check_missing_module(mods, module, imported, mods[module].imports[imported])
        \o check_missing_dep(an, module, imported)

ModuleResults(an, mods, module) ==
    LET imps == SetToSeq(DOMAIN mods[module].imports) IN
    Flatten([k \in DOMAIN imps |-> ImportResults(an, mods, module, imps[k])])

AppResults(an, mods, app) ==
    Flatten([k \in DOMAIN an.app_modules[app] |->
                ModuleResults(an, mods, an.app_modules[app][k])])

\* self.app_modules[app], self.modules.get(&module).unwrap() or
\* self.modules_rev[&module] finds no entry
RunPanics(an, mods, as) ==
    \E app \in as :
        \/ app \notin DOMAIN an.app_modules
        \/ \E module \in Range(an.app_modules[app]) :
              module \notin DOMAIN mods \/ module \notin DOMAIN an.modules_rev

\* mutant: an empty list of applications stands for all of them
RunScope_empty_is_all(an, as) == IF as = {} THEN DOMAIN an.app_modules ELSE as

\* mutant: the list of applications is not consulted
RunScope_every_app(an, as) == DOMAIN an.app_modules

\* the applications run works through: apps.par_iter()
RunScope(an, as) == as

\* Analyzer::run on the applications as; the result list is unordered
run(an, mods, as) ==
    IF RunPanics(an, mods, as)
    THEN [status |-> "panic", results |-> EmptyBag]
    ELSE LET order == SetToSeq(RunScope(an, as)) IN
         [status |-> "ok",
          results |-> SeqToBag(Flatten([k \in DOMAIN order |-> AppResults(an, mods, order[k])]))]

AppNames == {"X", "Y", "Z"}
\* the Atoms a caller can pass to run: the application names interned so far
Candidates == {k \in DOMAIN interner : interner[k] \in AppNames}

\* mutant: the diagnostics of the first run are kept and handed out again
Run_cached ==
    /\ analyzer.built
    /\ \E as \in SUBSET Candidates :
         /\ runApps' = as
         /\ runStatus' = IF runStatus = "none" THEN run(analyzer, modules, as).status
                         ELSE runStatus
         /\ results' = IF runStatus = "none" THEN run(analyzer, modules, as).results
                       ELSE results
    /\ UNCHANGED <<fs, task, interner, modules, apps, lock, poisoned, loadResult, analyzer>>

Run ==
    /\ analyzer.built
    /\ \E as \in SUBSET Candidates :
         /\ runApps' = as
         /\ runStatus' = run(analyzer, modules, as).status
         /\ results' = run(analyzer, modules, as).results
    /\ UNCHANGED <<fs, task, interner, modules, apps, lock, poisoned, loadResult, analyzer>>

----------------------------------------------------------------------------

Next ==
    \/ \E t \in Tasks :
         \/ StartEntry(t)
         \/ SkipEntry(t)
         \/ IgnoreFile(t)
         \/ UnexpectedFile(t)
         \/ ModuleUnreadable(t)
         \/ BeginModule(t)
         \/ LoadModule(t)
         \/ LockModules(t)
         \/ InsertModule(t)
         \/ BeginApp(t)
         \/ InternStem(t)
         \/ LockDeps(t)
         \/ InternDeps(t)
         \/ MissingDescriptor(t)
         \/ LockApps(t)
         \/ InsertApp(t)
    \/ ReadLibsReturn
    \/ AnalyzerNew
    \/ Run

Spec == Init /\ [][Next]_vars

----------------------------------------------------------------------------
(* Vocabulary of the properties, stated on the tables the Analyzer holds.  *)
(* Nothing below goes through run, check_missing_module, check_missing_dep *)
(* or has_path_connecting.                                                 *)

RunOk == analyzer.built /\ runStatus = "ok"

\* how many times the module lists of the applications in scope list m
ScopeCount(m) ==
    Cardinality({p \in runApps \X (1..Cardinality(DOMAIN modules)) :
                    /\ p[1] \in DOMAIN analyzer.app_modules
                    /\ p[2] \in DOMAIN analyzer.app_modules[p[1]]
                    /\ analyzer.app_modules[p[1]][p[2]] = m})

\* how many times any module list of the snapshot lists m
ListCount(m) ==
    Cardinality({p \in (DOMAIN analyzer.app_modules) \X (1..Cardinality(DOMAIN modules)) :
                    /\ p[2] \in DOMAIN analyzer.app_modules[p[1]]
                    /\ analyzer.app_modules[p[1]][p[2]] = m})

\* m belongs to exactly one application (section 4.3 of the specification
\* states this of every module the Analyzer is given)
OwnedOnce(m) == ListCount(m) = 1
OwnerOf(m) == CHOOSE a \in DOMAIN analyzer.app_modules : m \in Range(analyzer.app_modules[a])

\* a module under analysis, listed once
InScopeOnce(m) == OwnedOnce(m) /\ OwnerOf(m) \in runApps

ImportsOf(m) == modules[m].imports

\* a directed path of one or more declared edges from a to b
PathExists(a, b) ==
    \E n \in 1..Cardinality(analyzer.edges) :
        \E p \in [1..(n + 1) -> analyzer.nodes] :
            /\ p[1] = a
            /\ p[n + 1] = b
            /\ \A k \in 1..n : <<p[k], p[k + 1]>> \in analyzer.edges

Occurrences(seq, x) == Cardinality({k \in DOMAIN seq : seq[k] = x})

DiagsOf(m, imported) ==
    {d \in BagToSet(results) : d.module = m /\ d.imported = imported}

\* C1: when a module under analysis imports a module that has no entry in
\* Modules, the result holds exactly one MissingModule for the pair and neither
\* a MissingFunction nor a MissingDependency for it.
C1_MissingModuleRule ==
    RunOk =>
      \A m \in DOMAIN modules : InScopeOnce(m) =>
        \A imported \in DOMAIN ImportsOf(m) : imported \notin DOMAIN modules =>
          /\ CopiesIn(MissingModule(m, imported), results) = 1
          /\ DiagsOf(m, imported) = {MissingModule(m, imported)}

C1_Witness ==
    /\ RunOk
    /\ \E m \in DOMAIN modules :
         /\ InScopeOnce(m)
         /\ \E imported \in DOMAIN ImportsOf(m) :
              /\ imported \notin DOMAIN modules
              /\ Len(ImportsOf(m)[imported]) >= 1
              /\ CopiesIn(MissingModule(m, imported), results) = 1
         /\ \E imported \in DOMAIN ImportsOf(m) : imported \in DOMAIN modules

\* C2: when a module under analysis imports a module of another application,
\* the result holds MissingDependency{module, app_from, app_to} exactly once if
\* the dependency graph has no directed path from app_from to app_to, and not
\* at all if it has one, of whatever length.
C2_DependencyRule ==
    RunOk =>
      \A m \in DOMAIN modules : InScopeOnce(m) =>
        \A imported \in DOMAIN ImportsOf(m) :
          (/\ imported \in DOMAIN modules
           /\ OwnedOnce(imported)
           /\ OwnerOf(imported) # OwnerOf(m)) =>
             LET d == MissingDependency(m, imported, OwnerOf(m), OwnerOf(imported)) IN
             /\ CopiesIn(d, results) =
                  IF PathExists(OwnerOf(m), OwnerOf(imported)) THEN 0 ELSE 1
             /\ \A e \in DiagsOf(m, imported) : e.kind = "MissingDependency" => e = d

\* a run in which a cross-application import is backed only by a path of two
\* edges, and one in which no path backs it
C2_Witness ==
    /\ RunOk
    /\ \E m \in DOMAIN modules : InScopeOnce(m) /\
         \E imported \in DOMAIN ImportsOf(m) :
            /\ imported \in DOMAIN modules
            /\ OwnedOnce(imported)
            /\ OwnerOf(imported) # OwnerOf(m)
            /\ <<OwnerOf(m), OwnerOf(imported)>> \notin analyzer.edges
            /\ PathExists(OwnerOf(m), OwnerOf(imported))
            /\ \A e \in DiagsOf(m, imported) : e.kind # "MissingDependency"

C2_WitnessNoPath ==
    /\ RunOk
    /\ \E m \in DOMAIN modules : InScopeOnce(m) /\
         \E imported \in DOMAIN ImportsOf(m) :
            /\ imported \in DOMAIN modules
            /\ OwnedOnce(imported)
            /\ OwnerOf(imported) # OwnerOf(m)
            /\ analyzer.edges # {}
            /\ CopiesIn(MissingDependency(m, imported, OwnerOf(m), OwnerOf(imported)),
                        results) = 1

\* C3: when a module under analysis imports a module that is in Modules, the
\* result holds MissingFunction(imported, f, a) once for each entry (f, a) of
\* the reference list that is not in the imported module's Exports as that
\* exact pair, and for no other pair.
C3_FunctionRule ==
    RunOk =>
      \A m \in DOMAIN modules : InScopeOnce(m) =>
        \A imported \in DOMAIN ImportsOf(m) : imported \in DOMAIN modules =>
          LET refs == ImportsOf(m)[imported]
              exports == Range(modules[imported].exports)
          IN /\ \A fa \in Range(refs) :
                  CopiesIn(MissingFunction(m, imported, fa[1], fa[2]), results) =
                    IF fa \in exports THEN 0 ELSE Occurrences(refs, fa)
             /\ \A d \in DiagsOf(m, imported) :
                  /\ d.kind # "MissingModule"
                  /\ d.kind = "MissingFunction" => <<d.function, d.arity>> \in Range(refs)

\* A exports only f/1, B references A:f/2, and analyzing B gives exactly one
\* MissingFunction(A, f, 2)
C3_Witness ==
    /\ RunOk
    /\ \E m \in DOMAIN modules : InScopeOnce(m) /\
         \E imported \in DOMAIN ImportsOf(m) :
            /\ imported \in DOMAIN modules
            /\ interner[m] = "B" /\ interner[imported] = "A"
            /\ modules[imported].exports = <<<<AtomOf(interner, "f"), 1>>>>
            /\ ImportsOf(m)[imported] = <<<<AtomOf(interner, "f"), 2>>>>
            /\ results = SetToBag({MissingFunction(m, imported, AtomOf(interner, "f"), 2)})

\* C4: an import between two modules of the same application never gives a
\* MissingDependency, whatever the dependency graph holds; no MissingDependency
\* ever has app_from = app_to.
C4_SameApplication ==
    RunOk =>
      /\ \A d \in BagToSet(results) : d.kind = "MissingDependency" => d.app_from # d.app_to
      /\ \A m \in DOMAIN modules : InScopeOnce(m) =>
           \A imported \in DOMAIN ImportsOf(m) :
             (OwnedOnce(imported) /\ OwnerOf(imported) = OwnerOf(m)) =>
                \A d \in DiagsOf(m, imported) : d.kind # "MissingDependency"

\* a same-application import analyzed while the application is no node of the
\* graph and the graph has no edge at all
C4_Witness ==
    /\ RunOk
    /\ analyzer.edges = {}
    /\ \E m \in DOMAIN modules : InScopeOnce(m) /\
         \E imported \in DOMAIN ImportsOf(m) :
            /\ OwnedOnce(imported)
            /\ OwnerOf(imported) = OwnerOf(m)
            /\ OwnerOf(m) \notin analyzer.nodes
            /\ imported # m

\* the same with edges in the graph, none of them from the application to itself
C4_WitnessEdges ==
    /\ RunOk
    /\ \E m \in DOMAIN modules : InScopeOnce(m) /\
         \E imported \in DOMAIN ImportsOf(m) :
            /\ OwnedOnce(imported)
            /\ OwnerOf(imported) = OwnerOf(m)
            /\ OwnerOf(m) \in analyzer.nodes
            /\ <<OwnerOf(m), OwnerOf(m)>> \notin analyzer.edges

\* the diagnostics rules 1-3 give for module m, owners taken from the reverse index
Expected(m) ==
    LET rev == analyzer.modules_rev IN
    UNION {
        (IF i \notin DOMAIN modules
         THEN {MissingModule(m, i)}
         ELSE {MissingFunction(m, i, fa[1], fa[2]) :
                 fa \in Range(ImportsOf(m)[i]) \ Range(modules[i].exports)})
        \cup
        (IF i \in DOMAIN rev /\ rev[m] # rev[i] /\ ~PathExists(rev[m], rev[i])
         THEN {MissingDependency(m, i, rev[m], rev[i])}
         ELSE {})
        : i \in DOMAIN ImportsOf(m)}

\* the modules listed by the applications as
ModulesOfApps(as) ==
    UNION {Range(analyzer.app_modules[a]) : a \in as \cap DOMAIN analyzer.app_modules}

ExpectedOfApps(as) == UNION {Expected(m) : m \in ModulesOfApps(as)}

AllApps == DOMAIN analyzer.app_modules

RunMade == analyzer.built /\ runStatus # "none"

\* C5 as stated: run with no application analyzes all loaded applications and
\* returns the diagnostics run(all application names) returns.
C5_EmptyIsGlobal ==
    (RunMade /\ runApps = {}) =>
        /\ runStatus = "ok"
        /\ BagToSet(results) = ExpectedOfApps(AllApps)

\* C5, amended: run with no application analyzes no module and returns the
\* empty list; the diagnostics of all loaded applications are what run returns
\* for the list of all application names.
C5_EmptyIsEmpty ==
    /\ (RunMade /\ runApps = {}) => (runStatus = "ok" /\ results = EmptyBag)
    /\ (RunMade /\ runApps = AllApps) =>
          (runStatus = "ok" /\ BagToSet(results) = ExpectedOfApps(AllApps))

\* run([]) came back empty although a loaded module has an unresolved import
C5_Witness ==
    /\ RunMade /\ runApps = {} /\ runStatus = "ok" /\ results = EmptyBag
    /\ \E m \in ModulesOfApps(AllApps) :
          \E i \in DOMAIN ImportsOf(m) : i \notin DOMAIN modules

\* C6: run on a non-empty list of loaded applications returns diagnostics of
\* the modules those applications list and of no other module, and returns
\* every diagnostic rules 1-3 give for those modules.
C6_SubsetScope ==
    (RunOk /\ runApps # {}) =>
        /\ \A d \in BagToSet(results) : d.module \in ModulesOfApps(runApps)
        /\ BagToSet(results) = ExpectedOfApps(runApps)

\* a run on some but not all applications, with diagnostics returned and
\* diagnostics of a module out of scope left out
C6_Witness ==
    /\ RunOk /\ runApps # {} /\ runApps # AllApps
    /\ results # EmptyBag
    /\ \E m \in ModulesOfApps(AllApps) \ ModulesOfApps(runApps) : Expected(m) # {}

\* C7: run never aborts, whatever applications it is given.
C7_RunTotal == runStatus # "panic"

----------------------------------------------------------------------------
(* Loader properties *)

Returned == loadResult.status # "running"

\* file f stops read_app
FatalFile(f) ==
    \/ f.ext = "beam" /\ (~f.ok \/ ~ModuleDecodes(f))
    \/ f.ext = "app" /\ ~f.ok
    \/ f.ext \notin KnownExt \cup {""}

\* an entry of a root that read_app is called on
IsAppDir(e) == e.kind = "dir" /\ e.name \notin DotNames /\ e.hasEbin

\* entry e holds a fatal condition
FatalEntry(e) ==
    \/ e.kind \in {"rooterr", "enterr"}
    \/ /\ IsAppDir(e)
       /\ \/ ~e.ebinOk
          \/ \E k \in DOMAIN e.files : FatalFile(e.files[k])
          \/ \A k \in DOMAIN e.files : e.files[k].ext # "app"

HasFatal == \E t \in Tasks : FatalEntry(fs[t])

\* C8: when any entry holds a fatal condition, read_libs returns an error,
\* whatever the interleaving of the workers.
C8_FailFast == (Returned /\ HasFatal) => loadResult.status = "err"

\* the part of C8 the code keeps: with a fatal condition read_libs never
\* returns Ok, and it returns an error whenever no worker panicked
C8_NeverOk ==
    (Returned /\ HasFatal) =>
        /\ loadResult.status # "ok"
        /\ ~Panicked => loadResult.status = "err"

\* C9: a worker that stops at a module file lacking a required chunk, or
\* holding an index outside its atom table, stops with an error value.
C9_StructuredError ==
    \A t \in Tasks :
        (/\ task[t].pc \in {"failed", "panicked"}
         /\ task[t].i \in DOMAIN fs[t].files
         /\ CurFile(t).ext = "beam" /\ CurFile(t).ok /\ ~ModuleDecodes(CurFile(t)))
        => task[t].pc = "failed"

\* the paths of the files with an unrecognized extension in the ebin
\* directories read_app reads
UnexpectedPaths ==
    UNION {{FilePath(fs[t], fs[t].files[k]) :
              k \in {j \in DOMAIN fs[t].files : fs[t].files[j].ext \notin KnownExt \cup {""}}}
           : t \in {u \in Tasks : IsAppDir(fs[u]) /\ fs[u].ebinOk}}

NamesUnexpected(err) == err.kind = "unexpected file" /\ err.path \in UnexpectedPaths

\* C10 as stated: with such a file in some ebin directory, read_libs returns
\* an error and the error names the file.
C10_ErrorNamesFile ==
    (Returned /\ UnexpectedPaths # {}) =>
        (loadResult.status = "err" /\ NamesUnexpected(loadResult.err))

\* C10, amended: with such a file in some ebin directory read_libs never
\* returns Ok; the worker that reaches the file fails with an error naming that
\* file; and read_libs returns an error naming such a file unless another
\* entry failed for another reason or a worker panicked.
C10_UnexpectedFile ==
    /\ \A t \in Tasks :
         (task[t].pc = "failed" /\ task[t].err.kind = "unexpected file") =>
            /\ task[t].err.path = FilePath(fs[t], CurFile(t))
            /\ CurFile(t).ext \notin KnownExt \cup {""}
    /\ \A t \in Tasks :
         (AtFile(t) /\ CurFile(t).ext \notin KnownExt \cup {""}) =>
            /\ ENABLED UnexpectedFile(t)
            /\ ~ENABLED IgnoreFile(t)
    /\ (Returned /\ UnexpectedPaths # {}) =>
         /\ loadResult.status # "ok"
         /\ (loadResult.status = "err" /\ loadResult.err.kind = "unexpected file")
               => NamesUnexpected(loadResult.err)
         /\ (/\ ~Panicked
             /\ \A t \in Tasks : task[t].pc = "failed" => task[t].err.kind = "unexpected file")
               => (loadResult.status = "err" /\ NamesUnexpected(loadResult.err))

\* the load failed on an unexpected file while another application had been
\* loaded in full
C10_Witness ==
    /\ loadResult.status = "err"
    /\ NamesUnexpected(loadResult.err)
    /\ \E t \in Tasks : task[t].pc = "done" /\ task[t].has_name

----------------------------------------------------------------------------
(* The loaded snapshot *)

LoadedOk == loadResult.status = "ok"

\* how many times the module lists of Apps list module m
AppListCount(m) ==
    Cardinality({p \in (DOMAIN apps) \X (1..Cardinality(DOMAIN modules)) :
                    /\ p[2] \in DOMAIN apps[p[1]].modules
                    /\ apps[p[1]].modules[p[2]] = m})

\* C11: after a successful load every module key of Modules is in the module
\* list of exactly one application of Apps: no module without an owner and no
\* module with two owners.
C11_OwnershipTotal ==
    LoadedOk => \A m \in DOMAIN modules : AppListCount(m) = 1

\* what the code keeps of C11: every module an application lists is a key of
\* Modules
C11_ListedAreLoaded ==
    LoadedOk => \A a \in DOMAIN apps : Range(apps[a].modules) \subseteq DOMAIN modules

\* a successful load that left a module without an owner, and one that left a
\* module with two owners
C11_Orphan == LoadedOk /\ \E m \in DOMAIN modules : AppListCount(m) = 0
C11_TwoOwners == LoadedOk /\ \E m \in DOMAIN modules : AppListCount(m) = 2

\* the App a finished worker handed to apps.insert
AppOfTask(t) ==
    [name |-> task[t].app_name, deps |-> task[t].app_deps, modules |-> task[t].app_modules]

\* the step of worker t that performs apps.insert
InsertsApp(t) == task[t].pc = "insert_app" /\ task'[t].pc = "done"

\* two entries of the input carry a descriptor of the same name
SameAppName(t, u) ==
    /\ t # u
    /\ IsAppDir(fs[t]) /\ IsAppDir(fs[u])
    /\ \E j \in DOMAIN fs[t].files : \E k \in DOMAIN fs[u].files :
          /\ fs[t].files[j].ext = "app" /\ fs[u].files[k].ext = "app"
          /\ fs[t].files[j].stem = fs[u].files[k].stem

NameCollision == \E t, u \in Tasks : SameAppName(t, u)

\* C12: loading two directories that carry the same application name is not
\* an error; each insertion replaces the whole entry of that name by the
\* application being inserted and touches no other entry, so Apps ends with
\* one entry for the name, holding the deps and modules of the application
\* inserted last and nothing of the earlier one.
C12_LastWriteWins ==
    /\ []((Returned /\ NameCollision /\ ~HasFatal) =>
            /\ LoadedOk
            /\ \A t, u \in Tasks : SameAppName(t, u) =>
                  /\ task[t].app_name = task[u].app_name
                  /\ apps[task[t].app_name] \in {AppOfTask(t), AppOfTask(u)})
    /\ [][/\ \A t \in Tasks : InsertsApp(t) =>
                /\ DOMAIN apps' = DOMAIN apps \cup {task[t].app_name}
                /\ apps'[task[t].app_name] = AppOfTask(t)
                /\ \A a \in DOMAIN apps \ {task[t].app_name} : apps'[a] = apps[a]
          /\ apps' # apps => \E t \in Tasks : InsertsApp(t)]_vars

\* a successful load of two directories named X with different modules and
\* dependencies, the entry of X being the application of the first directory
C12_Witness ==
    /\ LoadedOk
    /\ SameAppName(1, 2)
    /\ AppOfTask(1).modules # AppOfTask(2).modules
    /\ AppOfTask(1).deps # AppOfTask(2).deps
    /\ apps[task[1].app_name] = AppOfTask(1)
    /\ Cardinality(DOMAIN apps) = 2

----------------------------------------------------------------------------
(* The snapshot by names: what the tables say once every Atom is resolved, *)
(* and what the files of the input say, read off their own tables.         *)

NameOf(a) == interner[a]

NamedPairs(pairs) == [k \in DOMAIN pairs |-> <<NameOf(pairs[k][1]), pairs[k][2]>>]

NamedImports(imports) ==
    [n \in {NameOf(m) : m \in DOMAIN imports} |->
        NamedPairs(imports[CHOOSE m \in DOMAIN imports : NameOf(m) = n])]

NamedModuleEntry(entry) ==
    [imports |-> NamedImports(entry.imports), exports |-> NamedPairs(entry.exports)]

NamedModules ==
    [n \in {NameOf(m) : m \in DOMAIN modules} |->
        NamedModuleEntry(modules[CHOOSE m \in DOMAIN modules : NameOf(m) = n])]

NamedApp(app) ==
    [deps |-> [k \in DOMAIN app.deps |-> NameOf(app.deps[k])],
     modules |-> [k \in DOMAIN app.modules |-> NameOf(app.modules[k])]]

NamedApps ==
    [n \in {NameOf(a) : a \in DOMAIN apps} |->
        NamedApp(apps[CHOOSE a \in DOMAIN apps : NameOf(a) = n])]

NamedEdges == {<<NameOf(e[1]), NameOf(e[2])>> : e \in AppDepsEdges(apps)}

\* a module file by names: the name it declares, its exports in table order,
\* and per imported module name the references to it in table order
FileModuleName(f) == f.atoms[1]

FileExports(f) ==
    [k \in DOMAIN f.exports |-> <<f.atoms[f.exports[k][1]], f.exports[k][2]>>]

FileReferences(f, n) ==
    LET triples == SelectSeq(f.imports, LAMBDA i : f.atoms[i[1]] = n)
    IN [k \in DOMAIN triples |-> <<f.atoms[triples[k][2]], triples[k][3]>>]

FileImports(f) ==
    [n \in {f.atoms[f.imports[k][1]] : k \in DOMAIN f.imports} |-> FileReferences(f, n)]

FileModule(f) == [imports |-> FileImports(f), exports |-> FileExports(f)]

\* an application directory by names
BeamsOf(e) == SelectSeq(e.files, LAMBDA f : f.ext = "beam")
DescriptorOf(e) ==
    e.files[CHOOSE k \in DOMAIN e.files :
               /\ e.files[k].ext = "app"
               /\ \A j \in DOMAIN e.files : j > k => e.files[j].ext # "app"]
DirAppName(e) == DescriptorOf(e).stem
DirApp(e) ==
    [deps |-> DescriptorOf(e).deps,
     modules |-> [k \in DOMAIN BeamsOf(e) |-> FileModuleName(BeamsOf(e)[k])]]

AppTasks == {t \in Tasks : IsAppDir(fs[t])}
BeamSlots ==
    UNION {{<<t, k>> : k \in {j \in DOMAIN fs[t].files : fs[t].files[j].ext = "beam"}} :
             t \in AppTasks}
SlotFile(p) == fs[p[1]].files[p[2]]
SlotBefore(p, q) == p[1] < q[1] \/ (p[1] = q[1] /\ p[2] < q[2])

\* the snapshot of one worker taking the entries in the order of the input
SeqModules ==
    [n \in {FileModuleName(SlotFile(p)) : p \in BeamSlots} |->
        FileModule(SlotFile(CHOOSE p \in BeamSlots :
            /\ FileModuleName(SlotFile(p)) = n
            /\ \A q \in BeamSlots :
                 FileModuleName(SlotFile(q)) = n => (q = p \/ SlotBefore(q, p))))]

SeqApps ==
    [n \in {DirAppName(fs[t]) : t \in AppTasks} |->
        DirApp(fs[CHOOSE t \in AppTasks :
            /\ DirAppName(fs[t]) = n
            /\ \A u \in AppTasks : DirAppName(fs[u]) = n => u <= t])]

SeqEdges == UNION {{<<n, SeqApps[n].deps[k]>> : k \in DOMAIN SeqApps[n].deps} : n \in DOMAIN SeqApps}

\* C13 as stated: whatever the interleaving of the workers, a successful load
\* ends with the Modules, Apps and dependency edges, by names, that taking the
\* entries one after the other in input order gives.
C13_OrderIndependent ==
    LoadedOk => (NamedModules = SeqModules /\ NamedApps = SeqApps /\ NamedEdges = SeqEdges)

\* C13, amended: whatever the interleaving, a successful load ends with the
\* same module names and application names as keys; the entry of a name is the
\* content of one of the files or directories that yield the name, hence the
\* same in every order when only one yields it, and the one written last when
\* two do; the dependency edges are those of the entries of Apps.
C13_OrderIndependentUnlessCollision ==
    LoadedOk =>
        /\ DOMAIN NamedModules = DOMAIN SeqModules
        /\ DOMAIN NamedApps = DOMAIN SeqApps
        /\ \A n \in DOMAIN NamedModules :
              NamedModules[n] \in {FileModule(SlotFile(p)) :
                                     p \in {q \in BeamSlots : FileModuleName(SlotFile(q)) = n}}
        /\ \A n \in DOMAIN NamedApps :
              NamedApps[n] \in {DirApp(fs[t]) : t \in {u \in AppTasks : DirAppName(fs[u]) = n}}
        /\ NamedEdges = UNION {{<<n, d>> : d \in Range(NamedApps[n].deps)} : n \in DOMAIN NamedApps}
        /\ ~NameCollision => NamedApps = SeqApps
        /\ (\A p, q \in BeamSlots :
               FileModuleName(SlotFile(p)) = FileModuleName(SlotFile(q)) => p = q)
             => NamedModules = SeqModules

\* a successful load of three applications without any collision of names in
\* which a worker of a later directory interned the first string
C13_Witness ==
    /\ LoadedOk
    /\ ~NameCollision
    /\ Cardinality(DOMAIN apps) = 3
    /\ Cardinality(DOMAIN modules) = 2
    /\ NamedEdges # {}
    /\ NamedModules = SeqModules /\ NamedApps = SeqApps
    /\ interner[1] \in {"A", "Y", "Z"}

\* the Atoms held by the tables and by the workers
AtomsInUse ==
    DOMAIN modules \cup DOMAIN apps
    \cup UNION {DOMAIN modules[m].imports : m \in DOMAIN modules}
    \cup UNION {{modules[m].exports[k][1] : k \in DOMAIN modules[m].exports} : m \in DOMAIN modules}
    \cup UNION {Range(apps[a].deps) \cup Range(apps[a].modules) : a \in DOMAIN apps}
    \cup UNION {Range(task[t].app_modules) \cup Range(task[t].app_deps) : t \in Tasks}
    \cup {task[t].app_name : t \in {u \in Tasks : task[u].has_name}}

\* the descriptor worker t handled last
LastDescriptor(t) ==
    fs[t].files[CHOOSE k \in DOMAIN fs[t].files :
                   /\ fs[t].files[k].ext = "app"
                   /\ k <= task[t].i
                   /\ \A j \in DOMAIN fs[t].files :
                        (j > k /\ j <= task[t].i) => fs[t].files[j].ext # "app"]

\* C14: whichever worker interns a string and whenever, the string has one
\* Atom: no string is in the table twice (equal strings give the same Atom,
\* different strings different Atoms), an Atom once given keeps its string for
\* the rest of the load, interning an interned string changes nothing, and
\* every Atom a worker obtained resolves to the string it interned.
C14_InternStable ==
    /\ [](/\ \A j, k \in DOMAIN interner : interner[j] = interner[k] => j = k
          /\ \A s \in Range(interner) :
                /\ get_or_intern(interner, s) = interner
                /\ NameOf(AtomOf(interner, s)) = s
          /\ AtomsInUse \subseteq DOMAIN interner
          /\ \A t \in Tasks :
                /\ (task[t].has_name /\ task[t].pc # "stem") =>
                      NameOf(task[t].app_name) = LastDescriptor(t).stem
                /\ task[t].pc \in {"module", "insert_module"} =>
                      NameOf(task[t].module) = FileModuleName(CurFile(t))
                /\ task[t].pc = "done" =>
                      \A k \in DOMAIN task[t].app_deps :
                          NameOf(task[t].app_deps[k]) = LastDescriptor(t).deps[k])
    /\ [][\A k \in DOMAIN interner : k \in DOMAIN interner' /\ interner'[k] = interner[k]]_vars

\* two workers interned the same strings: the application name Y as a
\* dependency and as a file stem, the module name A as an import and as a
\* module's own name
C14_Witness ==
    /\ LoadedOk
    /\ \E t, u \in Tasks :
          /\ t # u
          /\ task[t].pc = "done" /\ task[u].pc = "done"
          /\ task[u].has_name /\ task[u].app_name \in Range(task[t].app_deps)
          /\ \E m \in Range(task[t].app_modules) :
                Range(task[u].app_modules) \cap DOMAIN modules[m].imports # {}
    /\ Len(interner) >= 6

----------------------------------------------------------------------------
(* Runs of the Analyzer *)

\* how many times one visit of module d.module gives diagnostic d, from the
\* tables alone
PerVisit(d) ==
    LET rev == analyzer.modules_rev
        m == d.module
        i == d.imported
    IN IF m \notin DOMAIN modules \/ i \notin DOMAIN ImportsOf(m) THEN 0
       ELSE IF d.kind = "MissingModule"
         THEN IF i \notin DOMAIN modules /\ d = MissingModule(m, i) THEN 1 ELSE 0
       ELSE IF d.kind = "MissingFunction"
         THEN IF /\ i \in DOMAIN modules
                 /\ <<d.function, d.arity>> \notin Range(modules[i].exports)
                 /\ d = MissingFunction(m, i, d.function, d.arity)
              THEN Occurrences(ImportsOf(m)[i], <<d.function, d.arity>>)
              ELSE 0
       ELSE IF /\ i \in DOMAIN rev
               /\ rev[m] # rev[i] /\ ~PathExists(rev[m], rev[i])
               /\ d = MissingDependency(m, i, rev[m], rev[i])
            THEN 1
            ELSE 0

\* the tables a run reads
AnalyzerTables == <<modules, analyzer>>

\* C15: a run writes nothing: from the construction of the Analyzer on,
\* Modules, the reverse index, the application -> modules mapping and the
\* dependency graph never change; and what a run returns is a function of
\* these tables and of the applications it is given (the number of copies of
\* every diagnostic, and whether the run aborts), so a run with a given list
\* returns the same multiset every time, whatever runs came before.
C15_RunReadsOnly ==
    /\ [][analyzer.built => (AnalyzerTables' = AnalyzerTables /\ apps' = apps
                             /\ interner' = interner)]_vars
    /\ [](RunMade =>
            /\ runStatus = "panic" <=> (runApps \ DOMAIN analyzer.app_modules # {})
            /\ runStatus = "ok" =>
                 \A d \in BagToSet(results) \cup ExpectedOfApps(runApps) :
                     CopiesIn(d, results) = ScopeCount(d.module) * PerVisit(d))

\* a run that returned a diagnostic twice and another one once
C15_Witness ==
    /\ RunOk
    /\ \E d, e \in BagToSet(results) :
          /\ CopiesIn(d, results) = 2 /\ ScopeCount(d.module) = 1
          /\ CopiesIn(e, results) = 1
    /\ runApps # AllApps

----------------------------------------------------------------------------
(* What a failed load leaves behind *)

LoadFailed == loadResult.status = "err"

NoDescriptor(e) ==
    /\ IsAppDir(e) /\ e.ebinOk
    /\ \A k \in DOMAIN e.files : e.files[k].ext # "app"

IsMissingDescriptor(err) ==
    \E t \in Tasks : NoDescriptor(fs[t]) /\ err = Err("missing .app file", EbinPath(fs[t]))

\* C17 as stated: with an application directory without descriptor in the
\* input, read_libs returns the MissingDescriptor error carrying the ebin path
\* of such a directory.
C17_MissingDescriptorReturned ==
    (Returned /\ \E t \in Tasks : NoDescriptor(fs[t])) =>
        (LoadFailed /\ IsMissingDescriptor(loadResult.err))

\* C17, amended: the worker that reaches the end of an ebin directory without
\* descriptor stops with the MissingDescriptor error carrying that ebin path,
\* with or without module files read before; it neither crashes there nor
\* goes on to insert an application; read_libs then never returns Ok, and it
\* returns that error unless another entry failed for another reason or a
\* worker panicked.
C17_MissingDescriptor ==
    /\ \A t \in Tasks :
         (task[t].pc = "file" /\ task[t].i > Len(fs[t].files) /\ ~task[t].has_name) =>
            (ENABLED MissingDescriptor(t) /\ ~ENABLED LockApps(t))
    /\ \A t \in Tasks :
         (/\ NoDescriptor(fs[t])
          /\ task[t].pc \in Terminal \cup {"insert_app"}
          /\ task[t].i > Len(fs[t].files)) =>
            /\ task[t].pc = "failed"
            /\ task[t].err = Err("missing .app file", EbinPath(fs[t]))
    /\ \A t \in Tasks :
         (task[t].pc = "failed" /\ task[t].err.kind = "missing .app file") =>
            NoDescriptor(fs[t])
    /\ \A a \in DOMAIN apps :
         \E t \in Tasks : task[t].has_name /\ task[t].app_name = a /\ ~NoDescriptor(fs[t])
    /\ (Returned /\ \E t \in Tasks : NoDescriptor(fs[t])) =>
         /\ ~LoadedOk
         /\ (/\ ~Panicked
             /\ \A t \in Tasks :
                  task[t].pc = "failed" => task[t].err.kind = "missing .app file")
               => (LoadFailed /\ IsMissingDescriptor(loadResult.err))

\* the load failed with MissingDescriptor for a directory whose module file
\* had been read, and for a directory without any module file
C17_Witness ==
    /\ LoadFailed
    /\ IsMissingDescriptor(loadResult.err)
    /\ \E t \in Tasks :
          /\ task[t].pc = "failed" /\ task[t].err = loadResult.err
          /\ task[t].app_modules # <<>>

C17_WitnessNoModules ==
    /\ LoadFailed
    /\ IsMissingDescriptor(loadResult.err)
    /\ \E t \in Tasks :
          /\ task[t].pc = "failed" /\ task[t].err = loadResult.err
          /\ task[t].app_modules = <<>>
          /\ fs[t].files # <<>>

\* worker t holds the result of read_module for its current file
HoldsModule(t) == task[t].pc \in {"module", "insert_module"}

RECURSIVE SumLen(_)
SumLen(lists) == IF lists = <<>> THEN 0 ELSE Len(Head(lists)) + SumLen(Tail(lists))

\* the number of references an Imports map holds
ReferenceCount(imports) ==
    LET ms == SetToSeq(DOMAIN imports) IN SumLen([k \in DOMAIN ms |-> imports[ms[k]]])

\* C18: what read_module returns for a module file: the module name is the
\* Atom of the first entry of the file's atom table; Exports has one pair per
\* entry of the export table, in table order, duplicates kept, the function
\* being the Atom of the atom-table entry the local index points to; every
\* import triple (m, f, a) puts (Atom of entry f, a) into the list of the Atom
\* of entry m, the lists keep the table order, and the lists together hold as
\* many references as the table has triples.
C18_IndexResolution ==
    \A t \in Tasks : HoldsModule(t) =>
        LET f == CurFile(t) IN
        /\ NameOf(task[t].module) = f.atoms[1]
        /\ Len(task[t].exports) = Len(f.exports)
        /\ \A k \in DOMAIN f.exports :
              /\ NameOf(task[t].exports[k][1]) = f.atoms[f.exports[k][1]]
              /\ task[t].exports[k][2] = f.exports[k][2]
        /\ \A k \in DOMAIN f.imports :
              LET m == AtomOf(interner, f.atoms[f.imports[k][1]])
                  fa == <<AtomOf(interner, f.atoms[f.imports[k][2]]), f.imports[k][3]>>
              IN /\ m \in DOMAIN task[t].imports
                 /\ fa \in Range(task[t].imports[m])
        /\ \A m \in DOMAIN task[t].imports :
              NamedPairs(task[t].imports[m]) = FileReferences(f, NameOf(m))
        /\ ReferenceCount(task[t].imports) = Len(f.imports)

\* read_module returned for a file with five import triples on two modules,
\* one reference given twice, and a duplicated export
C18_Witness ==
    \E t \in Tasks :
        /\ HoldsModule(t)
        /\ Len(CurFile(t).imports) = 5
        /\ Cardinality(DOMAIN task[t].imports) = 2
        /\ \E m \in DOMAIN task[t].imports :
              /\ Len(task[t].imports[m]) = 4
              /\ Cardinality(Range(task[t].imports[m])) = 2
              /\ task[t].imports[m][1] # task[t].imports[m][2]
        /\ Len(task[t].exports) = 2 /\ Cardinality(Range(task[t].exports)) = 1
        /\ task[t].module # 1

----------------------------------------------------------------------------
(* Locks *)

HeldBy(t) == {l \in Locks : lock[l] = t}

\* worker t is about to call lock() on a mutex
AboutToLock(t) ==
    \/ AtFile(t) /\ CurFile(t).ext = "beam" /\ CurFile(t).ok
    \/ AtFile(t) /\ CurFile(t).ext = "app"
    \/ task[t].pc \in {"module", "deps_lock"}
    \/ task[t].pc = "file" /\ task[t].i > Len(fs[t].files) /\ task[t].has_name

\* some step of worker t is possible (inside the interner block of
\* read_module the worker always has a next step)
CanStep(t) ==
    \/ ENABLED StartEntry(t) \/ ENABLED SkipEntry(t)
    \/ ENABLED IgnoreFile(t) \/ ENABLED UnexpectedFile(t)
    \/ ENABLED ModuleUnreadable(t) \/ ENABLED BeginModule(t)
    \/ task[t].pc = "atoms" \/ ENABLED LockModules(t)
    \/ ENABLED InsertModule(t) \/ ENABLED BeginApp(t)
    \/ ENABLED InternStem(t) \/ ENABLED LockDeps(t)
    \/ ENABLED InternDeps(t) \/ ENABLED MissingDescriptor(t)
    \/ ENABLED LockApps(t) \/ ENABLED InsertApp(t)

\* no worker holds two locks, none calls lock() while it holds one, a lock is
\* held only inside the block that took it, and while read_libs has not
\* returned some step is possible
C19_LockDiscipline ==
    /\ \A t \in Tasks :
          /\ Cardinality(HeldBy(t)) <= 1
          /\ AboutToLock(t) => HeldBy(t) = {}
          /\ ("interner" \in HeldBy(t)) <=> (task[t].pc \in {"atoms", "stem", "deps"})
          /\ ("modules" \in HeldBy(t)) <=> (task[t].pc = "insert_module")
          /\ ("apps" \in HeldBy(t)) <=> (task[t].pc = "insert_app")
    /\ \A l \in Locks : lock[l] \in Tasks \cup {0}
    /\ ~Returned => (ENABLED ReadLibsReturn \/ \E t \in Tasks : CanStep(t))

\* C19: no worker ever holds more than one of the three locks or calls lock()
\* while holding one, the load never reaches a state in which nothing can
\* move before read_libs has returned, and what read_libs comes back with is
\* Ok or an error.
C19_NoDeadlock ==
    /\ C19_LockDiscipline
    /\ Returned => loadResult.status \in {"ok", "err"}

\* how far worker t has come: entries not started count 0, each file of the
\* directory four positions, a finished or dropped entry the top
PcRank(pc) ==
    IF pc \in {"atoms", "stem", "insert_app"} THEN 1
    ELSE IF pc \in {"module", "deps_lock"} THEN 2
    ELSE IF pc \in {"insert_module", "deps"} THEN 3
    ELSE 0

RankOf(tk, t) ==
    IF tk[t].pc = "todo" THEN 0
    ELSE IF tk[t].pc \in Terminal THEN 4 * (Len(fs[t].files) + 2)
    ELSE 4 * tk[t].i + PcRank(tk[t].pc)

RECURSIVE SumRank(_, _)
SumRank(tk, ts) ==
    IF ts = {} THEN 0
    ELSE LET t == CHOOSE u \in ts : TRUE
         IN RankOf(tk, t) + SumRank(tk, ts \ {t})

\* every step before the return of read_libs is the return itself or moves a
\* worker forward, so the load takes a bounded number of steps
C19_Progress ==
    [][~Returned => (Returned' \/ SumRank(task', Tasks) > SumRank(task, Tasks))]_vars

\* the MissingDependency diagnostics of a (module, imported) pair
DepDiagsOf(m, imported) == {d \in DiagsOf(m, imported) : d.kind = "MissingDependency"}
FunDiagsOf(m, imported) == {d \in DiagsOf(m, imported) : d.kind = "MissingFunction"}

\* C20: for a module under analysis and a module it imports that is in
\* Modules, a MissingDependency is in the result exactly when the imported
\* module has an owner and no path leads from the importing module's
\* application to it - whether or not functions of the imported module are
\* reported missing for the same pair - and it is there once, however many
\* functions the module references.
C20_IndependentRules ==
    RunOk =>
      \A m \in DOMAIN modules : InScopeOnce(m) =>
        \A imported \in DOMAIN ImportsOf(m) : imported \in DOMAIN modules =>
          LET rev == analyzer.modules_rev
              unbacked == /\ imported \in DOMAIN rev
                          /\ rev[m] # rev[imported]
                          /\ ~PathExists(rev[m], rev[imported])
          IN /\ (DepDiagsOf(m, imported) # {}) <=> unbacked
             /\ Cardinality(DepDiagsOf(m, imported)) <= 1
             /\ \A d \in DepDiagsOf(m, imported) :
                   /\ CopiesIn(d, results) = 1
                   /\ d = MissingDependency(m, imported, rev[m], rev[imported])

\* one pair with two references to a missing function: both a MissingFunction
\* (twice) and a MissingDependency (once) are in the result
C20_Witness ==
    /\ RunOk
    /\ \E m \in DOMAIN modules : InScopeOnce(m) /\
         \E imported \in DOMAIN ImportsOf(m) :
            /\ imported \in DOMAIN modules
            /\ Len(ImportsOf(m)[imported]) >= 4
            /\ \E d \in FunDiagsOf(m, imported) : CopiesIn(d, results) = 2
            /\ \E d \in DepDiagsOf(m, imported) : CopiesIn(d, results) = 1

\* a pair whose functions all exist, with a MissingDependency, and a pair with
\* a missing function and no MissingDependency
C20_WitnessEither ==
    /\ RunOk
    /\ \E m \in DOMAIN modules : InScopeOnce(m) /\
         \E imported \in DOMAIN ImportsOf(m) :
            /\ imported \in DOMAIN modules
            /\ FunDiagsOf(m, imported) = {} /\ DepDiagsOf(m, imported) # {}
    /\ \E m \in DOMAIN modules : InScopeOnce(m) /\
         \E imported \in DOMAIN ImportsOf(m) :
            /\ imported \in DOMAIN modules
            /\ FunDiagsOf(m, imported) # {} /\ DepDiagsOf(m, imported) = {}

====
